---- MODULE Spec2Model ----
(***************************************************************************)
(* photo_sync (src/src/main.rs): one run of main2 over a file system that  *)
(* holds both the source and the target collection.                        *)
(*                                                                         *)
(* A path is a sequence of components.  The file system is the pair        *)
(* (files, dirs): files maps the absolute path of every regular file to    *)
(* its length, dirs is the set of existing directories.  Symbolic links    *)
(* and special files are outside the model.                                *)
(***************************************************************************)
EXTENDS Integers, Sequences, FiniteSets, TLC

VARIABLES
    files,              \* absolute path -> size, for every regular file
    dirs,               \* absolute paths of the existing directories
    source_directory,   \* Args.source_directory
    target_directory,   \* Args.target_directory
    dry_run,            \* Args.dry_run
    analyzed_source,    \* main2: analyzed_source.map
    analyzed_target,    \* main2: analyzed_target.map
    operations,         \* main2: operations (the script given to execute)
    next_op,            \* execute: 1-based position of the loop in the script
    pc,                 \* position of main2
    error,              \* the Err(..) main2 returned, "" while there is none
    initial_files       \* files as they were when the run started

vars == << files, dirs, source_directory, target_directory, dry_run,
           analyzed_source, analyzed_target, operations, next_op, pc, error,
           initial_files >>

----------------------------------------------------------------------------
(* Bounds of the model. *)

\* at most this many regular files exist when the run starts
MaxFiles == 3

\* file lengths range over 1..MaxSize
MaxSize == 2

\* the path components (file and directory names)
Components == {"a", "x"}

\* Ord for OsString: byte-wise, so "a" < "x"
NameOrder == << "a", "x" >>

\* relative paths a file may have below a root when the run starts
RelPaths == { <<c>> : c \in Components } \cup
            { <<c, d>> : c \in Components, d \in Components }

\* (source_directory, target_directory): disjoint roots, the same root,
\* the target inside the source, the source inside the target
RootPairs == { << <<"r">>, <<"q">> >>,
               << <<"r">>, <<"r">> >>,
               << <<"r">>, <<"r", "x">> >>,
               << <<"r", "x">>, <<"r">> >> }

----------------------------------------------------------------------------
(* std::path *)

IsPrefix(p, q) == Len(p) <= Len(q) /\ SubSeq(q, 1, Len(p)) = p

IsProperPrefix(p, q) == Len(p) < Len(q) /\ SubSeq(q, 1, Len(p)) = p

\* Path::join, for a relative second argument
join(base, rel) == base \o rel

\* Path::strip_prefix, defined when base is a prefix of path
strip_prefix(path, base) == SubSeq(path, Len(base) + 1, Len(path))

\* Path::file_name
file_name(path) == path[Len(path)]

\* Path::parent
parent(path) == SubSeq(path, 1, Len(path) - 1)

\* the path and all its ancestors
Ancestors(path) == { SubSeq(path, 1, k) : k \in 1..Len(path) }

----------------------------------------------------------------------------
(* std::fs, as functions of a file system (f, d) *)

is_file(f, d, p) == p \in DOMAIN f

is_dir(f, d, p) == p \in d

\* exists that sees directories only
exists_as_directory(f, d, p) == is_dir(f, d, p)

exists(f, d, p) == is_file(f, d, p) \/ is_dir(f, d, p)

\* create_dir_all fails when a component of the path is a regular file
create_dir_all_ok(f, d, p) == \A q \in Ancestors(p) : ~ is_file(f, d, q)

create_dir_all(f, d, p) == d \cup Ancestors(p)

\* fs::copy: the source is a regular file, the destination's parent is a
\* directory and the destination is no directory; an existing destination
\* file is truncated and overwritten
fs_copy_ok(f, d, from, to) ==
    /\ is_file(f, d, from)
    /\ is_dir(f, d, parent(to))
    /\ ~ is_dir(f, d, to)

fs_copy(f, d, from, to) ==
    [ p \in DOMAIN f \cup {to} |-> IF p = to THEN f[from] ELSE f[p] ]

\* fs::rename of a regular file: an existing destination file is replaced
fs_rename_ok(f, d, from, to) ==
    /\ is_file(f, d, from)
    /\ is_dir(f, d, parent(to))
    /\ ~ is_dir(f, d, to)

fs_rename(f, d, from, to) ==
    IF from = to THEN f
    ELSE [ p \in (DOMAIN f \ {from}) \cup {to} |->
             IF p = to THEN f[from] ELSE f[p] ]

\* fs::remove_file
fs_remove_file_ok(f, d, p) == is_file(f, d, p)

fs_remove_file(f, d, p) == [ q \in DOMAIN f \ {p} |-> f[q] ]

----------------------------------------------------------------------------
(* SizeAndName and AnalyzedDirectory *)

SizeAndName(size, name) == [ size |-> size, name |-> name ]

NameRank(name) == CHOOSE k \in 1..Len(NameOrder) : NameOrder[k] = name

\* #[derive(PartialOrd, Ord)]: by size, then by name
KeyLess(k1, k2) ==
    \/ k1.size < k2.size
    \/ k1.size = k2.size /\ NameRank(k1.name) < NameRank(k2.name)

\* the keys of a BTreeMap in iteration order
RECURSIVE BTreeKeys(_)
BTreeKeys(S) ==
    IF S = {} THEN << >>
    ELSE LET least == CHOOSE k \in S : \A j \in S \ {k} : KeyLess(k, j)
         IN  << least >> \o BTreeKeys(S \ {least})

EmptyMap == [ k \in {} |-> << >> ]

\* MapPush that replaces the paths of the key by the new path
MapPush_replaces(map, key, path) ==
    [ k \in DOMAIN map \cup {key} |-> IF k = key THEN << path >> ELSE map[k] ]

\* result.map.entry(key).or_insert(Vec::new()).push(path)
MapPush(map, key, path) ==
    [ k \in DOMAIN map \cup {key} |->
        IF k = key
        THEN (IF key \in DOMAIN map THEN Append(map[key], path) ELSE << path >>)
        ELSE map[k] ]

\* The orders in which read_dir may list the entries of the directories:
\* one permutation of the component names for each directory.
Listings == { s \in [1..Cardinality(Components) -> Components] :
                \A i, j \in DOMAIN s : i # j => s[i] # s[j] }

ListingOrders(d) == [ d -> Listings ]

\* analyze_sub_directory, from position k of the listing of `path` on; a
\* name of the listing that is no entry of the directory is passed over,
\* like an entry that is neither a directory nor a regular file
RECURSIVE analyze_entries(_, _, _, _, _, _, _)
analyze_entries(f, d, lo, path, k, base_path, result) ==
    IF k > Len(lo[path]) THEN result
    ELSE LET entry == Append(path, lo[path][k])
         IN  IF is_dir(f, d, entry)
             THEN analyze_entries(f, d, lo, path, k + 1, base_path,
                      analyze_entries(f, d, lo, entry, 1, base_path, result))
             ELSE IF is_file(f, d, entry)
             THEN analyze_entries(f, d, lo, path, k + 1, base_path,
                      MapPush(result,
                              SizeAndName(f[entry], file_name(entry)),
                              strip_prefix(entry, base_path)))
             ELSE analyze_entries(f, d, lo, path, k + 1, base_path, result)

analyze_sub_directory(f, d, lo, path, base_path, result) ==
    analyze_entries(f, d, lo, path, 1, base_path, result)

analyze_directory(f, d, lo, path) ==
    analyze_sub_directory(f, d, lo, path, path, EmptyMap)

\* get_duplicates with the test value.len() > 2
get_duplicates_over_two(map) ==
    LET keys == BTreeKeys(DOMAIN map)
        dup == SelectSeq(keys, LAMBDA k : Len(map[k]) > 2)
    IN  [ i \in 1..Len(dup) |-> map[dup[i]] ]

\* get_duplicates: the path lists of the keys with more than one path
get_duplicates(map) ==
    LET keys == BTreeKeys(DOMAIN map)
        dup == SelectSeq(keys, LAMBDA k : Len(map[k]) > 1)
    IN  [ i \in 1..Len(dup) |-> map[dup[i]] ]

----------------------------------------------------------------------------
(* Operation *)

Copy(source, target) == [ op |-> "Copy", source |-> source, target |-> target ]

Move(source, target) == [ op |-> "Move", source |-> source, target |-> target ]

RemoveDuplicate(duplicate, original) ==
    [ op |-> "RemoveDuplicate", duplicate |-> duplicate, original |-> original ]

Ok(ops) == [ err |-> "", ops |-> ops ]

Err(msg) == [ err |-> msg, ops |-> << >> ]

----------------------------------------------------------------------------
(* sync *)

contains(paths, path) == \E i \in DOMAIN paths : paths[i] = path

\* remove_duplicates without the test target_path != chosen_target_path
remove_duplicates_unfiltered(target_paths, chosen_target_path) ==
    [ i \in 1..Len(target_paths) |->
        RemoveDuplicate(target_paths[i], chosen_target_path) ]

\* the loop over target_paths: one RemoveDuplicate for every path that is
\* not the chosen one, naming the chosen path as the original
remove_duplicates(target_paths, chosen_target_path) ==
    LET dup == SelectSeq(target_paths, LAMBDA t : t # chosen_target_path)
    IN  [ i \in 1..Len(dup) |-> RemoveDuplicate(dup[i], chosen_target_path) ]

\* sync_entry that emits no RemoveDuplicate after a Move
sync_entry_keeps_duplicates(key, value, target_map) ==
    IF value = << >> THEN Err("no path for source")
    ELSE LET source_path == Head(value)
         IN  IF key \in DOMAIN target_map
             THEN LET target_paths == target_map[key]
                  IN  IF contains(target_paths, source_path)
                      THEN Ok(remove_duplicates(target_paths, source_path))
                      ELSE IF target_paths = << >>
                      THEN Err("empty list of target paths")
                      ELSE Ok(<< Move(Head(target_paths), source_path) >>)
             ELSE Ok(<< Copy(source_path, source_path) >>)

\* sync_entry that looks the target entry up by file name alone
sync_entry_by_name(key, value, target_map) ==
    IF value = << >> THEN Err("no path for source")
    ELSE LET source_path == Head(value)
             same_name == { k \in DOMAIN target_map : k.name = key.name }
         IN  IF same_name # {}
             THEN LET target_paths ==
                          target_map[CHOOSE k \in same_name :
                                       \A j \in same_name \ {k} : KeyLess(k, j)]
                  IN  IF contains(target_paths, source_path)
                      THEN Ok(remove_duplicates(target_paths, source_path))
                      ELSE IF target_paths = << >>
                      THEN Err("empty list of target paths")
                      ELSE LET chosen_target_path == Head(target_paths)
                           IN  Ok(<< Move(chosen_target_path, source_path) >>
                                  \o remove_duplicates(target_paths,
                                                       chosen_target_path))
             ELSE Ok(<< Copy(source_path, source_path) >>)

\* sync_entry that chooses the last target path instead of the first
sync_entry_chooses_last(key, value, target_map) ==
    IF value = << >> THEN Err("no path for source")
    ELSE LET source_path == Head(value)
         IN  IF key \in DOMAIN target_map
             THEN LET target_paths == target_map[key]
                  IN  IF contains(target_paths, source_path)
                      THEN Ok(remove_duplicates(target_paths, source_path))
                      ELSE IF target_paths = << >>
                      THEN Err("empty list of target paths")
                      ELSE LET chosen_target_path ==
                                   target_paths[Len(target_paths)]
                           IN  Ok(<< Move(chosen_target_path, source_path) >>
                                  \o remove_duplicates(target_paths,
                                                       chosen_target_path))
             ELSE Ok(<< Copy(source_path, source_path) >>)

\* sync_entry that emits the RemoveDuplicates before the Move
sync_entry_removes_first(key, value, target_map) ==
    IF value = << >> THEN Err("no path for source")
    ELSE LET source_path == Head(value)
         IN  IF key \in DOMAIN target_map
             THEN LET target_paths == target_map[key]
                  IN  IF contains(target_paths, source_path)
                      THEN Ok(remove_duplicates(target_paths, source_path))
                      ELSE IF target_paths = << >>
                      THEN Err("empty list of target paths")
                      ELSE LET chosen_target_path == Head(target_paths)
                           IN  Ok(remove_duplicates(target_paths,
                                                    chosen_target_path)
                                  \o << Move(chosen_target_path, source_path) >>)
             ELSE Ok(<< Copy(source_path, source_path) >>)

\* the body of the loop of sync for one (key, value) of the source map
sync_entry(key, value, target_map) ==
    IF value = << >> THEN Err("no path for source")
    ELSE LET source_path == Head(value)
         IN  IF key \in DOMAIN target_map
             THEN LET target_paths == target_map[key]
                  IN  IF contains(target_paths, source_path)
                      THEN Ok(remove_duplicates(target_paths, source_path))
                      ELSE IF target_paths = << >>
                      THEN Err("empty list of target paths")
                      ELSE LET chosen_target_path == Head(target_paths)
                           IN  Ok(<< Move(chosen_target_path, source_path) >>
                                  \o remove_duplicates(target_paths,
                                                       chosen_target_path))
             ELSE Ok(<< Copy(source_path, source_path) >>)

RECURSIVE sync_from(_, _, _, _, _)
sync_from(keys, k, source_map, target_map, result) ==
    IF k > Len(keys) THEN Ok(result)
    ELSE LET r == sync_entry(keys[k], source_map[keys[k]], target_map)
         IN  IF r.err # "" THEN r
             ELSE sync_from(keys, k + 1, source_map, target_map,
                            result \o r.ops)

sync(source_map, target_map) ==
    sync_from(BTreeKeys(DOMAIN source_map), 1, source_map, target_map, << >>)

----------------------------------------------------------------------------
(* create_parent: [ok, dirs] *)

create_parent(f, d, full_target_path) ==
    LET full_target_directory == parent(full_target_path)
    IN  IF exists(f, d, full_target_directory)
        THEN [ ok |-> TRUE, dirs |-> d ]
        ELSE IF create_dir_all_ok(f, d, full_target_directory)
        THEN [ ok |-> TRUE, dirs |-> create_dir_all(f, d, full_target_directory) ]
        ELSE [ ok |-> FALSE, dirs |-> d ]

----------------------------------------------------------------------------
(* The state when main2 starts. *)

PrefixFree(S) == \A p, q \in S : ~ IsProperPrefix(p, q)

Candidates(rp) == { join(rp[1], rel) : rel \in RelPaths } \cup
                  { join(rp[2], rel) : rel \in RelPaths }

\* the sets of file paths the file system may hold: no file lies below
\* another file, and the roots are directories
FileSets(rp) ==
    { S \in SUBSET Candidates(rp) :
        /\ Cardinality(S) <= MaxFiles
        /\ PrefixFree(S)
        /\ \A p \in S : ~ IsPrefix(p, rp[1]) /\ ~ IsPrefix(p, rp[2]) }

Init ==
    \E rp \in RootPairs : \E S \in FileSets(rp) : \E f \in [ S -> 1..MaxSize ] :
        /\ files = f
        /\ dirs = UNION { Ancestors(parent(p)) : p \in S }
                    \cup Ancestors(rp[1]) \cup Ancestors(rp[2])
        /\ source_directory = rp[1]
        /\ target_directory = rp[2]
        /\ dry_run \in BOOLEAN
        /\ analyzed_source = EmptyMap
        /\ analyzed_target = EmptyMap
        /\ operations = << >>
        /\ next_op = 1
        /\ pc = "analyze_source"
        /\ error = ""
        /\ initial_files = f

----------------------------------------------------------------------------
(* main2 *)

DirsUnder(root) == { p \in dirs : IsPrefix(root, p) }

Fail(msg) == pc' = "failed" /\ error' = msg

\* let analyzed_source = analyze_directory(&args.source_directory)?;
AnalyzeSource ==
    /\ pc = "analyze_source"
    /\ \E io_ok \in BOOLEAN :
         IF io_ok
         THEN \E lo \in ListingOrders(DirsUnder(source_directory)) :
                /\ analyzed_source' =
                       analyze_directory(files, dirs, lo, source_directory)
                /\ pc' = "get_duplicates"
                /\ error' = error
         ELSE /\ Fail("Failed to read dir")
              /\ analyzed_source' = analyzed_source
    /\ UNCHANGED << files, dirs, source_directory, target_directory, dry_run,
                    analyzed_target, operations, next_op, initial_files >>

\* GetDuplicates that goes on to the target whatever get_duplicates returns
GetDuplicates_never_fails ==
    /\ pc = "get_duplicates"
    /\ pc' = "analyze_target"
    /\ UNCHANGED << files, dirs, source_directory, target_directory, dry_run,
                    analyzed_source, analyzed_target, operations, next_op,
                    error, initial_files >>

\* let duplicates_in_source = get_duplicates(&analyzed_source)?;
\* if !duplicates_in_source.is_empty() { return Err(..) }
GetDuplicates ==
    /\ pc = "get_duplicates"
    /\ IF get_duplicates(analyzed_source) # << >>
       THEN Fail("The source has duplicates")
       ELSE pc' = "analyze_target" /\ error' = error
    /\ UNCHANGED << files, dirs, source_directory, target_directory, dry_run,
                    analyzed_source, analyzed_target, operations, next_op,
                    initial_files >>

\* let analyzed_target = analyze_directory(&args.target_directory)?;
AnalyzeTarget ==
    /\ pc = "analyze_target"
    /\ \E io_ok \in BOOLEAN :
         IF io_ok
         THEN \E lo \in ListingOrders(DirsUnder(target_directory)) :
                /\ analyzed_target' =
                       analyze_directory(files, dirs, lo, target_directory)
                /\ pc' = "sync"
                /\ error' = error
         ELSE /\ Fail("Failed to read dir")
              /\ analyzed_target' = analyzed_target
    /\ UNCHANGED << files, dirs, source_directory, target_directory, dry_run,
                    analyzed_source, operations, next_op, initial_files >>

\* let operations = sync(&analyzed_source, &analyzed_target)?;
Sync ==
    /\ pc = "sync"
    /\ LET r == sync(analyzed_source, analyzed_target)
       IN  IF r.err # ""
           THEN Fail(r.err) /\ operations' = operations
           ELSE operations' = r.ops /\ pc' = "print" /\ error' = error
    /\ UNCHANGED << files, dirs, source_directory, target_directory, dry_run,
                    analyzed_source, analyzed_target, next_op, initial_files >>

\* PrintOperations that goes on to execute whatever args.dry_run says
PrintOperations_always_executes ==
    /\ pc = "print"
    /\ pc' = "execute"
    /\ UNCHANGED << files, dirs, source_directory, target_directory, dry_run,
                    analyzed_source, analyzed_target, operations, next_op,
                    error, initial_files >>

\* the loop over print_operation, then if !args.dry_run { execute(..)?; }
PrintOperations ==
    /\ pc = "print"
    /\ pc' = IF dry_run THEN "done" ELSE "execute"
    /\ UNCHANGED << files, dirs, source_directory, target_directory, dry_run,
                    analyzed_source, analyzed_target, operations, next_op,
                    error, initial_files >>

----------------------------------------------------------------------------
(* execute: one step of the loop over the script per action *)

Executing(kind) ==
    /\ pc = "execute"
    /\ next_op <= Len(operations)
    /\ operations[next_op].op = kind

ExecFrame == UNCHANGED << source_directory, target_directory, dry_run,
                          analyzed_source, analyzed_target, operations,
                          initial_files >>

Advance == pc' = pc /\ error' = error /\ next_op' = next_op + 1

\* Abort that passes over the failed operation and lets the loop go on
Abort_continues(msg) == pc' = pc /\ error' = error /\ next_op' = next_op + 1

Abort(msg) == Fail(msg) /\ next_op' = next_op

execute_copy ==
    /\ Executing("Copy")
    /\ LET operation == operations[next_op]
           full_source_path == join(source_directory, operation.source)
           full_target_path == join(target_directory, operation.target)
           made == create_parent(files, dirs, full_target_path)
       IN  IF exists(files, dirs, full_target_path)
           THEN /\ Abort("The target file already exists, copy would overwrite.")
                /\ UNCHANGED << files, dirs >>
           ELSE IF ~ made.ok
           THEN /\ Abort("Failed to create directory")
                /\ UNCHANGED << files, dirs >>
           ELSE \E io_ok \in BOOLEAN :
                  /\ dirs' = made.dirs
                  /\ IF io_ok /\ fs_copy_ok(files, made.dirs, full_source_path,
                                            full_target_path)
                     THEN /\ files' = fs_copy(files, made.dirs, full_source_path,
                                              full_target_path)
                          /\ Advance
                     ELSE /\ files' = files
                          /\ Abort("Copy failed.")
    /\ ExecFrame

execute_move ==
    /\ Executing("Move")
    /\ LET operation == operations[next_op]
           full_source_path == join(target_directory, operation.source)
           full_target_path == join(target_directory, operation.target)
           made == create_parent(files, dirs, full_target_path)
       IN  IF exists(files, dirs, full_target_path)
           THEN /\ Abort("The target file already exists, move would overwrite.")
                /\ UNCHANGED << files, dirs >>
           ELSE IF ~ made.ok
           THEN /\ Abort("Failed to create directory")
                /\ UNCHANGED << files, dirs >>
           ELSE \E io_ok \in BOOLEAN :
                  /\ dirs' = made.dirs
                  /\ IF io_ok /\ fs_rename_ok(files, made.dirs, full_source_path,
                                              full_target_path)
                     THEN /\ files' = fs_rename(files, made.dirs,
                                                full_source_path, full_target_path)
                          /\ Advance
                     ELSE /\ files' = files
                          /\ Abort("Move failed.")
    /\ ExecFrame

\* execute_remove_duplicate that deletes operation.original
execute_remove_original ==
    /\ Executing("RemoveDuplicate")
    /\ LET operation == operations[next_op]
           full_target_path == join(target_directory, operation.original)
       IN  \E io_ok \in BOOLEAN :
             IF io_ok /\ fs_remove_file_ok(files, dirs, full_target_path)
             THEN /\ files' = fs_remove_file(files, dirs, full_target_path)
                  /\ Advance
             ELSE /\ files' = files
                  /\ Abort("Failed to remove.")
    /\ dirs' = dirs
    /\ ExecFrame

execute_remove_duplicate ==
    /\ Executing("RemoveDuplicate")
    /\ LET operation == operations[next_op]
           full_target_path == join(target_directory, operation.duplicate)
       IN  \E io_ok \in BOOLEAN :
             IF io_ok /\ fs_remove_file_ok(files, dirs, full_target_path)
             THEN /\ files' = fs_remove_file(files, dirs, full_target_path)
                  /\ Advance
             ELSE /\ files' = files
                  /\ Abort("Failed to remove.")
    /\ dirs' = dirs
    /\ ExecFrame

\* the loop of execute is over: Ok(())
execute_done ==
    /\ pc = "execute"
    /\ next_op > Len(operations)
    /\ pc' = "done"
    /\ UNCHANGED << files, dirs, source_directory, target_directory, dry_run,
                    analyzed_source, analyzed_target, operations, next_op,
                    error, initial_files >>

Next ==
    \/ AnalyzeSource
    \/ GetDuplicates
    \/ AnalyzeTarget
    \/ Sync
    \/ PrintOperations
    \/ execute_copy
    \/ execute_move
    \/ execute_remove_duplicate
    \/ execute_done

Spec == Init /\ [][Next]_vars

----------------------------------------------------------------------------
(* Vocabulary of the properties. *)

\* the regular files below a root, as absolute paths
TreeFiles(f, root) == { p \in DOMAIN f : IsProperPrefix(root, p) }

\* the identity key of the file at p
KeyOf(f, p) == SizeAndName(f[p], file_name(p))

TreeKeys(f, root) == { KeyOf(f, p) : p \in TreeFiles(f, root) }

\* the root-relative paths of the files of a tree that have key K
PathsOfKey(f, root, K) ==
    { strip_prefix(p, root) : p \in { q \in TreeFiles(f, root) : KeyOf(f, q) = K } }

\* the tree below a root: relative path -> size
Tree(f, root) ==
    [ rel \in { strip_prefix(p, root) : p \in TreeFiles(f, root) } |->
        f[join(root, rel)] ]

\* execute ran over the whole script and returned Ok(())
Executed == pc = "done" /\ ~ dry_run

\* operation k of the script has been executed successfully
Applied(k) == pc \in {"execute", "done", "failed"} /\ k < next_op

HasOp(kind) == \E k \in DOMAIN operations : operations[k].op = kind

----------------------------------------------------------------------------
\* C1 (idempotence): once execute has completed successfully on the plan
\* of a duplicate-free source, indexing the target again (in whatever order
\* read_dir lists it) and planning again against the same source index
\* gives the empty plan.
C1_Idempotence ==
    Executed =>
        \A lo \in ListingOrders(DirsUnder(target_directory)) :
            sync(analyzed_source,
                 analyze_directory(files, dirs, lo, target_directory)) = Ok(<< >>)

\* a completed execution of a plan that moved a file and removed a duplicate
C1_Witness ==
    Executed /\ HasOp("Move") /\ HasOp("RemoveDuplicate")

\* C2 (target in line with source): after a successful execution, every
\* source key has exactly one file in the target, at the source's path.
C2_TargetMatchesSource ==
    Executed =>
        \A K \in DOMAIN analyzed_source :
            PathsOfKey(files, target_directory, K) = { Head(analyzed_source[K]) }

\* a completed execution that copied one file and moved another
C2_Witness ==
    Executed /\ HasOp("Copy") /\ HasOp("Move")

\* C3 (unique target content untouched): a file of the target whose key
\* does not occur in the source is, in every state of the run, still at
\* its path with its size.
C3_UniqueTargetUntouched ==
    \A p \in TreeFiles(initial_files, target_directory) :
        KeyOf(initial_files, p) \notin TreeKeys(initial_files, source_directory)
            => p \in DOMAIN files /\ files[p] = initial_files[p]

\* operations have been applied (a Move among them, completed or aborted
\* later) next to a target file whose key the source does not have
C3_Witness ==
    /\ pc \in {"done", "failed"}
    /\ \E k \in DOMAIN operations : Applied(k) /\ operations[k].op = "Move"
    /\ \E p \in TreeFiles(initial_files, target_directory) :
         KeyOf(initial_files, p) \notin TreeKeys(initial_files, source_directory)

\* C4 (no content lost): in every state of the run, every key that had a
\* file in the target when the run started still has one.
C4_NoKeyLost ==
    TreeKeys(initial_files, target_directory) \subseteq
        TreeKeys(files, target_directory)

\* a RemoveDuplicate has been executed
C4_Witness ==
    \E k \in DOMAIN operations :
        Applied(k) /\ operations[k].op = "RemoveDuplicate"

----------------------------------------------------------------------------
\* the key under which the target index holds a relative path
IndexedKey(rel) ==
    CHOOSE K \in DOMAIN analyzed_target :
        \E i \in DOMAIN analyzed_target[K] : analyzed_target[K][i] = rel

\* C5 (the kept original exists): right after a RemoveDuplicate has been
\* executed, the target holds a file at the operation's `original` path,
\* with the key of the duplicate that was deleted.
C5_OriginalKept ==
    (pc = "execute" /\ next_op > 1
        /\ operations[next_op - 1].op = "RemoveDuplicate") =>
        LET operation == operations[next_op - 1]
            kept == target_directory \o operation.original
        IN  /\ kept \in DOMAIN files
            /\ KeyOf(files, kept) = IndexedKey(operation.duplicate)

\* C6 (source immutability): in every state of the run the source tree
\* holds the files, with the sizes, it held when the run started.
C6_SourceUnchanged ==
    Tree(files, source_directory) = Tree(initial_files, source_directory)

\* C6, for roots of which neither is the other nor lies inside the other:
\* there the source tree is unchanged in every state.
C6_SourceUnchangedDisjointRoots ==
    (~ IsPrefix(source_directory, target_directory)
        /\ ~ IsPrefix(target_directory, source_directory))
    => Tree(files, source_directory) = Tree(initial_files, source_directory)

\* the messages of the would-overwrite errors
WouldOverwrite(kind) ==
    IF kind = "Copy"
    THEN "The target file already exists, copy would overwrite."
    ELSE "The target file already exists, move would overwrite."

\* the next step of execute is a Copy or Move whose destination exists
DestinationExists ==
    /\ pc = "execute"
    /\ next_op <= Len(operations)
    /\ operations[next_op].op \in {"Copy", "Move"}
    /\ LET to == target_directory \o operations[next_op].target
       IN  to \in DOMAIN files \/ to \in dirs

\* C7 (no overwrite): a Copy or Move whose destination exists when it is
\* executed fails with the would-overwrite error and changes no file and no
\* directory: the destination stays, the source is neither copied nor moved.
C7_NoOverwrite ==
    [][ DestinationExists =>
          /\ pc' = "failed"
          /\ error' = WouldOverwrite(operations[next_op].op)
          /\ files' = files
          /\ dirs' = dirs ]_vars

\* a Copy or Move was refused over an existing regular file
C7_Witness ==
    /\ pc = "failed"
    /\ error \in { WouldOverwrite("Copy"), WouldOverwrite("Move") }
    /\ (target_directory \o operations[next_op].target) \in DOMAIN files

\* the source index has a key with two or more paths
SourceHasDuplicateKeys ==
    \E K \in DOMAIN analyzed_source : Len(analyzed_source[K]) >= 2

\* C8 as claimed (duplicate-source gate in the planner): for a source
\* index with a duplicate key, sync fails and returns no Operation, whatever
\* the target index.
C8_PlannerRejectsDuplicates ==
    SourceHasDuplicateKeys =>
        \A lo \in ListingOrders(DirsUnder(target_directory)) :
            LET r == sync(analyzed_source,
                          analyze_directory(files, dirs, lo, target_directory))
            IN  r.err # "" /\ r.ops = << >>

\* C8 as amended (the gate is in main2): when the source index has a
\* duplicate key the run fails with "The source has duplicates" at the
\* duplicate check, before the target is indexed and before sync is called;
\* no Operation is planned or executed and no file is changed.
C8_DuplicateGate ==
    (SourceHasDuplicateKeys /\ pc \notin {"analyze_source", "get_duplicates"}) =>
        /\ pc = "failed"
        /\ error = "The source has duplicates"
        /\ analyzed_target = EmptyMap
        /\ operations = << >>
        /\ next_op = 1
        /\ files = initial_files

\* the run was stopped by the gate although the target holds files
C8_Witness ==
    /\ pc = "failed"
    /\ error = "The source has duplicates"
    /\ SourceHasDuplicateKeys
    /\ TreeFiles(files, target_directory) # {}

----------------------------------------------------------------------------
(* The planner rules as the specification states them. *)

\* K1 comes before K2 in the index: by size, then by name
Precedes(K1, K2) ==
    \/ K1.size < K2.size
    \/ /\ K1.size = K2.size
       /\ \E i, j \in DOMAIN NameOrder :
            i < j /\ NameOrder[i] = K1.name /\ NameOrder[j] = K2.name

\* the n-th source key in index order
SourceKeyAt(n) ==
    CHOOSE K \in DOMAIN analyzed_source :
        Cardinality({ J \in DOMAIN analyzed_source : Precedes(J, K) }) = n - 1

\* T without its element at position j
Without(T, j) == [ i \in 1..(Len(T) - 1) |-> IF i < j THEN T[i] ELSE T[i + 1] ]

\* the operations the rules give for source key K
RuleOps(K) ==
    LET s0 == analyzed_source[K][1]
    IN  IF K \notin DOMAIN analyzed_target
        THEN << [ op |-> "Copy", source |-> s0, target |-> s0 ] >>
        ELSE LET T == analyzed_target[K]
             IN  IF \E j \in DOMAIN T : T[j] = s0
                 THEN LET j == CHOOSE j \in DOMAIN T : T[j] = s0
                          rest == Without(T, j)
                      IN  [ i \in DOMAIN rest |->
                              [ op |-> "RemoveDuplicate",
                                duplicate |-> rest[i], original |-> s0 ] ]
                 ELSE << [ op |-> "Move", source |-> T[1], target |-> s0 ] >>
                      \o [ i \in 1..(Len(T) - 1) |->
                             [ op |-> "RemoveDuplicate",
                               duplicate |-> T[i + 1], original |-> T[1] ] ]

\* the rules' operations of the first n source keys, concatenated
RECURSIVE RulePlan(_)
RulePlan(n) == IF n = 0 THEN << >> ELSE RulePlan(n - 1) \o RuleOps(SourceKeyAt(n))

\* sync has returned Ok and main2 holds the plan
Planned == pc \in {"print", "execute", "done"}

\* C9 (planner rules): the plan of a duplicate-free source is the
\* concatenation, over the source keys in index order, of the rules'
\* operations (the chosen path being t0 when s0 is not in T); so a key gives
\* at most one Copy or Move, |T| - 1 RemoveDuplicates, and nothing when it is
\* alone at s0.
C9_PlannerRules ==
    Planned =>
        /\ operations = RulePlan(Cardinality(DOMAIN analyzed_source))
        /\ \A K \in DOMAIN analyzed_source :
             LET s0 == analyzed_source[K][1]
             IN  /\ Cardinality({ k \in DOMAIN operations :
                        /\ operations[k].op \in {"Copy", "Move"}
                        /\ operations[k].target = s0 }) <= 1
                 /\ K \in DOMAIN analyzed_target =>
                      LET T == analyzed_target[K]
                      IN  /\ Cardinality({ k \in DOMAIN operations :
                                 /\ operations[k].op = "RemoveDuplicate"
                                 /\ \E i \in DOMAIN T :
                                      T[i] = operations[k].duplicate })
                               = Len(T) - 1
                          /\ T = << s0 >> =>
                               \A k \in DOMAIN operations :
                                   IF operations[k].op = "RemoveDuplicate"
                                   THEN operations[k].original # s0
                                   ELSE operations[k].target # s0

\* a plan with a Move followed by a RemoveDuplicate
C9_Witness ==
    /\ pc = "print"
    /\ \E k \in DOMAIN operations :
         /\ operations[k].op = "Move"
         /\ k + 1 \in DOMAIN operations
         /\ operations[k + 1].op = "RemoveDuplicate"

\* C10 (Scenario C generalised): when the source path s0 of a key is not
\* among the target's paths T for it, the plan holds Move{t0 -> s0} followed
\* by RemoveDuplicate{t_i, original: s0} for every other t_i.
C10_OriginalIsMoveTarget ==
    Planned =>
        \A K \in DOMAIN analyzed_source \cap DOMAIN analyzed_target :
            LET s0 == analyzed_source[K][1]
                T == analyzed_target[K]
            IN  (\A j \in DOMAIN T : T[j] # s0) =>
                  \E at \in DOMAIN operations :
                    /\ operations[at] =
                         [ op |-> "Move", source |-> T[1], target |-> s0 ]
                    /\ \A i \in 1..(Len(T) - 1) :
                         /\ at + i \in DOMAIN operations
                         /\ operations[at + i] =
                              [ op |-> "RemoveDuplicate",
                                duplicate |-> T[i + 1], original |-> s0 ]

----------------------------------------------------------------------------
\* the target-relative paths the target index holds under keys that the
\* source index does not have
TargetOnlyPaths ==
    UNION { { analyzed_target[K][i] : i \in DOMAIN analyzed_target[K] } :
              K \in DOMAIN analyzed_target \ DOMAIN analyzed_source }

\* every path field of an operation
PathFields(o) ==
    IF o.op = "RemoveDuplicate" THEN { o.duplicate, o.original }
    ELSE { o.source, o.target }

\* the fields of an operation that name a file the target index holds: the
\* file a Move takes, the file a RemoveDuplicate deletes and the one it keeps
TargetFileFields(o) ==
    IF o.op = "RemoveDuplicate" THEN { o.duplicate, o.original }
    ELSE IF o.op = "Move" THEN { o.source }
    ELSE { }

\* the destination of a Copy or Move
DestinationFields(o) ==
    IF o.op = "RemoveDuplicate" THEN { } ELSE { o.target }

\* C11 as claimed: no path field of any operation of the plan equals a
\* target-relative path that the target index holds under a key absent from
\* the source.
C11_NoPathOfTargetOnlyKey ==
    Planned =>
        \A k \in DOMAIN operations :
            PathFields(operations[k]) \cap TargetOnlyPaths = {}

\* C11 as amended: no operation takes, deletes or keeps a file of a key
\* that only the target has: a Move's source and a RemoveDuplicate's
\* duplicate and original never equal a path the target index holds under
\* such a key.  (The destination of a Copy or Move may equal one.)
C11_NoFileOfTargetOnlyKey ==
    Planned =>
        \A k \in DOMAIN operations :
            TargetFileFields(operations[k]) \cap TargetOnlyPaths = {}

\* a plan with a Move whose destination is the path of a file whose key only
\* the target has
C11_Witness ==
    /\ Planned
    /\ \E k \in DOMAIN operations :
         /\ operations[k].op = "Move"
         /\ operations[k].target \in TargetOnlyPaths

----------------------------------------------------------------------------
\* the directories that exist when the run starts
InitialDirs ==
    UNION { Ancestors(parent(p)) : p \in DOMAIN initial_files }
        \cup Ancestors(source_directory) \cup Ancestors(target_directory)

\* C12 (dry run): with the dry-run flag set no step of the run changes a
\* file or a directory and execute is never entered, so both trees are, in
\* every state and at the end, as they were when the run started.
C12_DryRunChangesNothing ==
    dry_run =>
        /\ files = initial_files
        /\ dirs = InitialDirs
        /\ next_op = 1
        /\ pc # "execute"

\* a dry run has ended with a plan that holds operations
C12_Witness ==
    dry_run /\ pc = "done" /\ operations # << >>

----------------------------------------------------------------------------
(* execute as a function of a file system and a script, every call into    *)
(* std::fs succeeding whenever the file system allows it: [ok, files, dirs] *)

apply_copy(f, d, source, target, operation) ==
    LET full_source_path == join(source, operation.source)
        full_target_path == join(target, operation.target)
        made == create_parent(f, d, full_target_path)
    IN  IF exists(f, d, full_target_path)
        THEN [ ok |-> FALSE, files |-> f, dirs |-> d ]
        ELSE IF ~ made.ok
        THEN [ ok |-> FALSE, files |-> f, dirs |-> d ]
        ELSE IF fs_copy_ok(f, made.dirs, full_source_path, full_target_path)
        THEN [ ok |-> TRUE,
               files |-> fs_copy(f, made.dirs, full_source_path, full_target_path),
               dirs |-> made.dirs ]
        ELSE [ ok |-> FALSE, files |-> f, dirs |-> made.dirs ]

apply_move(f, d, target, operation) ==
    LET full_source_path == join(target, operation.source)
        full_target_path == join(target, operation.target)
        made == create_parent(f, d, full_target_path)
    IN  IF exists(f, d, full_target_path)
        THEN [ ok |-> FALSE, files |-> f, dirs |-> d ]
        ELSE IF ~ made.ok
        THEN [ ok |-> FALSE, files |-> f, dirs |-> d ]
        ELSE IF fs_rename_ok(f, made.dirs, full_source_path, full_target_path)
        THEN [ ok |-> TRUE,
               files |-> fs_rename(f, made.dirs, full_source_path,
                                   full_target_path),
               dirs |-> made.dirs ]
        ELSE [ ok |-> FALSE, files |-> f, dirs |-> made.dirs ]

apply_remove_duplicate(f, d, target, operation) ==
    LET full_target_path == join(target, operation.duplicate)
    IN  IF fs_remove_file_ok(f, d, full_target_path)
        THEN [ ok |-> TRUE, files |-> fs_remove_file(f, d, full_target_path),
               dirs |-> d ]
        ELSE [ ok |-> FALSE, files |-> f, dirs |-> d ]

apply_operation(f, d, source, target, operation) ==
    IF operation.op = "Copy" THEN apply_copy(f, d, source, target, operation)
    ELSE IF operation.op = "Move" THEN apply_move(f, d, target, operation)
    ELSE apply_remove_duplicate(f, d, target, operation)

\* the loop of execute from operation k on; the first failure ends it
RECURSIVE execute_from(_, _, _, _, _, _)
execute_from(f, d, source, target, script, k) ==
    IF k > Len(script) THEN [ ok |-> TRUE, files |-> f, dirs |-> d ]
    ELSE LET r == apply_operation(f, d, source, target, script[k])
         IN  IF r.ok
             THEN execute_from(r.files, r.dirs, source, target, script, k + 1)
             ELSE r

execute(f, d, source, target, script) ==
    execute_from(f, d, source, target, script, 1)

----------------------------------------------------------------------------
\* the operations sync emits for source key K (its group)
Group(K) == sync_entry(K, analyzed_source[K], analyzed_target).ops

\* the orders in which the groups of the source keys can be arranged
KeyOrders ==
    { o \in [ 1..Cardinality(DOMAIN analyzed_source) -> DOMAIN analyzed_source ] :
        \A i, j \in DOMAIN o : i # j => o[i] # o[j] }

\* the groups concatenated in the order o, from its n-th key back
RECURSIVE Arranged(_, _)
Arranged(o, n) == IF n = 0 THEN << >> ELSE Arranged(o, n - 1) \o Group(o[n])

\* what executing a script on the present file system gives: whether it
\* succeeds, and the target tree it leaves
Outcome(script) ==
    LET r == execute(files, dirs, source_directory, target_directory, script)
    IN  [ ok |-> r.ok, tree |-> Tree(r.files, target_directory) ]

\* the target-relative paths the operations of a script act on: the file a
\* Move or RemoveDuplicate takes away, the destination of a Copy or Move
TakenPaths(script) ==
    { rel \in UNION { PathFields(script[k]) : k \in DOMAIN script } :
        \E k \in DOMAIN script :
            \/ script[k].op = "Move" /\ script[k].source = rel
            \/ script[k].op = "RemoveDuplicate" /\ script[k].duplicate = rel }

DestinationPaths(script) ==
    UNION { DestinationFields(script[k]) : k \in DOMAIN script }

TouchedPaths(script) == TakenPaths(script) \cup DestinationPaths(script)

\* C13, first half as claimed: the operations of two different source keys
\* never touch the same relative path of the target.
C13_DisjointPaths ==
    pc = "print" =>
        \A K1, K2 \in DOMAIN analyzed_source :
            K1 # K2 =>
                TouchedPaths(Group(K1)) \cap TouchedPaths(Group(K2)) = {}

\* C13, second half as claimed: executing the groups in any order gives the
\* outcome (success or failure, final target tree) of the plan's order.
C13_OrderIndependent ==
    pc = "print" =>
        \A o \in KeyOrders :
            Outcome(Arranged(o, Len(o))) = Outcome(operations)

\* C13 as claimed (cross-key independence): both halves.
C13_CrossKeyIndependence == C13_DisjointPaths /\ C13_OrderIndependent


\* a destination of one key's group is, or lies below, the path of a file
\* that another key's group takes away
Collision ==
    \E K1, K2 \in DOMAIN analyzed_source :
        /\ K1 # K2
        /\ \E to \in DestinationPaths(Group(K1)) :
             \E from \in TakenPaths(Group(K2)) : IsPrefix(from, to)

\* C13 as amended: two different source keys never share a destination and
\* never take away the same file; a path touched by both is the destination
\* of one (its source path s0) and a file of the other in the target index.
\* When no destination of one key is, or lies below, a file another key
\* takes away, the order of the groups decides neither whether execution
\* succeeds nor the target tree a successful execution leaves.
C13_IndependenceUpToCollisions ==
    pc = "print" =>
        /\ \A K1, K2 \in DOMAIN analyzed_source :
             K1 # K2 =>
               /\ DestinationPaths(Group(K1)) \cap DestinationPaths(Group(K2)) = {}
               /\ TakenPaths(Group(K1)) \cap TakenPaths(Group(K2)) = {}
        /\ ~ Collision =>
             \A o \in KeyOrders :
                LET there == Outcome(Arranged(o, Len(o)))
                    here == Outcome(operations)
                IN  /\ there.ok = here.ok
                    /\ here.ok => there.tree = here.tree


\* a plan with the groups of two keys, one moving a file and one copying
\* one, free of collisions and executable
C13_Witness ==
    /\ pc = "print"
    /\ ~ Collision
    /\ Outcome(operations).ok
    /\ \E K1, K2 \in DOMAIN analyzed_source :
         /\ K1 # K2
         /\ \E k \in DOMAIN Group(K1) : Group(K1)[k].op = "Move"
         /\ \E k \in DOMAIN Group(K2) : Group(K2)[k].op = "Copy"

----------------------------------------------------------------------------
\* operations i and j of the plan are the Move and a RemoveDuplicate of one
\* key: the file moved and the file deleted are under one key of the index
MoveAndRemoveOfOneKey(i, j) ==
    /\ operations[i].op = "Move"
    /\ operations[j].op = "RemoveDuplicate"
    /\ IndexedKey(operations[i].source) = IndexedKey(operations[j].duplicate)

\* C14 (Move before RemoveDuplicate): in the plan the Move of a key comes
\* before every RemoveDuplicate of that key, and whenever such a
\* RemoveDuplicate has been executed the Move has been executed before and
\* has succeeded: the moved file is at the Move's destination.
C14_MoveBeforeRemove ==
    \A i, j \in DOMAIN operations :
        MoveAndRemoveOfOneKey(i, j) =>
            /\ i < j
            /\ Applied(j) =>
                 /\ Applied(i)
                 /\ LET to == target_directory \o operations[i].target
                    IN  /\ to \in DOMAIN files
                        /\ KeyOf(files, to) = IndexedKey(operations[i].source)

\* a RemoveDuplicate has been executed after the Move of its key
C14_Witness ==
    \E i, j \in DOMAIN operations :
        MoveAndRemoveOfOneKey(i, j) /\ Applied(j)

----------------------------------------------------------------------------
\* the outcome of applying exactly the first k operations of the plan, in
\* plan order, to the file system the run started with
FirstApplied(k) ==
    execute(initial_files, InitialDirs, source_directory, target_directory,
            SubSeq(operations, 1, k))

\* execute has returned an error: operation next_op failed
ExecuteFailed == pc = "failed" /\ operations # << >> /\ ~ dry_run
                    /\ error \notin {"Failed to read dir",
                                     "The source has duplicates"}

\* the count of operations executed is right for the way execute ended
ExecutedInPlanOrder ==
    /\ next_op \in 1..(Len(operations) + 1)
    /\ Executed => next_op = Len(operations) + 1
    /\ ExecuteFailed => next_op <= Len(operations) /\ error # ""
    /\ pc \notin {"execute", "done", "failed"} => next_op = 1

ParentsOfFailed ==
    IF ExecuteFailed /\ operations[next_op].op \in {"Copy", "Move"}
    THEN Ancestors(parent(join(target_directory, operations[next_op].target)))
    ELSE {}

----------------------------------------------------------------------------
\* the index holds, key by key, exactly the files the tree below root had
\* when the run started
FullyIndexed(index, root) ==
    /\ DOMAIN index = TreeKeys(initial_files, root)
    /\ \A K \in DOMAIN index :
         { index[K][i] : i \in DOMAIN index[K] } =
             PathsOfKey(initial_files, root, K)

\* two files of the source tree have the same size and name
SourceTreeHasDuplicates ==
    \E K \in TreeKeys(initial_files, source_directory) :
        Cardinality(PathsOfKey(initial_files, source_directory, K)) >= 2

\* the planner has been called, or is about to be
PlannerReached ==
    pc \in {"sync", "print", "execute", "done"} \/ operations # << >>

\* the executor has been called
ExecutorReached ==
    \/ pc = "execute"
    \/ Executed
    \/ next_op > 1
    \/ files # initial_files
    \/ dirs # InitialDirs

\* the run ended before the planner: a scan failed or the source has
\* duplicates
StoppedBeforePlanning ==
    \/ error \in {"Failed to read dir", "The source has duplicates"}
    \/ SourceTreeHasDuplicates /\ pc \notin {"analyze_source", "get_duplicates"}

\* C16 (run-level gating order): sync is called only when both indexes hold
\* the whole of their trees and the source tree has no two files of one key;
\* execute is called only with the complete plan sync returned; and a run
\* whose scan fails or whose source has duplicates ends in failure with no
\* plan, no operation executed and the file system as it was.
C16_GatingOrder ==
    /\ PlannerReached =>
         /\ FullyIndexed(analyzed_source, source_directory)
         /\ FullyIndexed(analyzed_target, target_directory)
         /\ ~ SourceTreeHasDuplicates
    /\ ExecutorReached =>
         /\ PlannerReached
         /\ ~ dry_run
         /\ LET r == sync(analyzed_source, analyzed_target)
            IN  r.err = "" /\ operations = r.ops
    /\ StoppedBeforePlanning =>
         /\ pc = "failed"
         /\ error \in {"Failed to read dir", "The source has duplicates"}
         /\ operations = << >>
         /\ next_op = 1
         /\ files = initial_files
         /\ dirs = InitialDirs

\* the executor is at work on a plan built from two indexed, non-empty trees
C16_Witness ==
    /\ pc = "execute"
    /\ next_op > 1
    /\ analyzed_source # EmptyMap
    /\ analyzed_target # EmptyMap

----------------------------------------------------------------------------
\* the places (key, position) at which the index holds the relative path rel
PlacesOf(index, rel) ==
    { kp \in UNION { { << K, i >> : i \in DOMAIN index[K] } : K \in DOMAIN index } :
        index[kp[1]][kp[2]] = rel }

WellFormed(index, root) ==
    \* every key maps to a non-empty path sequence
    /\ \A K \in DOMAIN index : Len(index[K]) >= 1
    \* every path stored is relative to the root and is a regular file of
    \* the tree, under the key formed by its size and file name
    /\ \A K \in DOMAIN index : \A i \in DOMAIN index[K] :
         /\ join(root, index[K][i]) \in TreeFiles(initial_files, root)
         /\ KeyOf(initial_files, join(root, index[K][i])) = K
    \* every regular file of the tree appears exactly once
    /\ \A p \in TreeFiles(initial_files, root) :
         Cardinality(PlacesOf(index, strip_prefix(p, root))) = 1
    \* no path appears under two keys
    /\ \A K1, K2 \in DOMAIN index :
         K1 # K2 =>
           \A i \in DOMAIN index[K1] : \A j \in DOMAIN index[K2] :
             index[K1][i] # index[K2][j]

\* analyze_directory has returned the index of the source / of the target
SourceIndexReturned == pc \notin {"analyze_source", "failed"} \/ analyzed_source # EmptyMap

TargetIndexReturned == pc \in {"sync", "print", "execute", "done"} \/ analyzed_target # EmptyMap

\* C17 (index well-formedness): every index analyze_directory returns is
\* well formed for its tree; on such indexes sync never returns one of its
\* empty-path-list errors; and a scan that fails leaves no index behind.
C17_IndexWellFormed ==
    /\ SourceIndexReturned => WellFormed(analyzed_source, source_directory)
    /\ TargetIndexReturned => WellFormed(analyzed_target, target_directory)
    /\ error \notin {"no path for source", "empty list of target paths"}
    /\ (SourceIndexReturned /\ TargetIndexReturned) =>
          sync(analyzed_source, analyzed_target).err = ""
    /\ error = "Failed to read dir" =>
          /\ pc = "failed"
          /\ analyzed_target = EmptyMap
          /\ TreeFiles(initial_files, source_directory) # {} =>
                \/ analyzed_source = EmptyMap
                \/ FullyIndexed(analyzed_source, source_directory)
          /\ operations = << >>

\* both indexes have been returned and a key of the target holds two paths
C17_Witness ==
    /\ pc = "sync"
    /\ analyzed_source # EmptyMap
    /\ \E K \in DOMAIN analyzed_target : Len(analyzed_target[K]) >= 2

====
